---- MODULE Spec2Model ----
(***************************************************************************)
(* The symbol candle cache and fetch-coalescing layer of the dashboard:    *)
(* Chandler.fetchCandles (and its hook-scoped twin fetchCandles) over the  *)
(* fetchJson transport.  JavaScript runs a call to completion between its  *)
(* suspension points, so one action models a call up to its await and one  *)
(* action models its continuation.                                         *)
(***************************************************************************)
EXTENDS Integers, Sequences, FiniteSets, TLC

\* Number of revisions of its data the provider may serve for one request.
MaxVersions == 2

\* The callers that call fetchCandles (component instances).
Calls == {1, 2}

Exchanges == {"binance"}
Intervals == {"12h", "1d"}
Starts == {"2020-01-01"}
Ends == {"2020-01-02", "2020-01-03"}
Symbols == {"eth-btc", "ltc-btc"}
SymbolLists == {<<"eth-btc">>, <<"eth-btc", "ltc-btc">>, <<"eth-btc", "eth-btc">>}
Versions == 1..MaxVersions

Range(s) == {s[i] : i \in DOMAIN s}

\* The args object the callers build: exchange, interval, start, end, symbols.
BaseQuery ==
    [exchange |-> "binance", interval |-> "1d", start |-> "2020-01-01",
     end |-> "2020-01-02", symbols |-> <<"eth-btc">>]

\* The field of the query that the callers of one session vary.
VariedFields == {"symbols", "interval", "end"}
Variations(f) ==
    CASE f = "symbols" -> SymbolLists
      [] f = "interval" -> Intervals
      [] f = "end" -> Ends

\* The queries of a session: the base query with one field varied.
Queries(f) == {[BaseQuery EXCEPT ![f] = v] : v \in Variations(f)}

\* The symbols a session's queries name.
SessionSymbols(f) == UNION {Range(q.symbols) : q \in Queries(f)}

\* An object with no properties ({}).
EmptyObject == [k \in {} |-> 0]

\* Property access inside a template literal: a missing property reads
\* as undefined and is formatted as the text "undefined".
TemplateField(a, f) == IF f \in DOMAIN a THEN a[f] ELSE "undefined"

\* getKey with the end field left out of the key.
getKeyNoEnd(a, symbol) ==
    TemplateField(a, "exchange") \o "_" \o TemplateField(a, "intervals") \o "_"
        \o symbol \o "_" \o TemplateField(a, "start")

\* getKey / composeKey: `${exchange}_${intervals}_${symbol}_${start}_${end}`.
getKey(a, symbol) ==
    TemplateField(a, "exchange") \o "_" \o TemplateField(a, "intervals") \o "_"
        \o symbol \o "_" \o TemplateField(a, "start") \o "_" \o TemplateField(a, "end")

(***************************************************************************)
(* The external data provider: for a request it serves, per symbol, the    *)
(* candles from start up to end, one per interval, at one of its revisions.*)
(***************************************************************************)
DayNumber(d) ==
    CASE d = "2020-01-01" -> 0
      [] d = "2020-01-02" -> 1
      [] d = "2020-01-03" -> 2
IntervalHours(i) ==
    CASE i = "12h" -> 12
      [] i = "1d" -> 24
SymbolPrice(s) ==
    CASE s = "eth-btc" -> 100
      [] s = "ltc-btc" -> 200

CandleFields == {"time", "open", "high", "low", "close", "volume"}
Candle(t, p) == [time |-> t, open |-> p, high |-> p, low |-> p, close |-> p, volume |-> 1]

ProviderSeries(interval, start, end, symbol, v) ==
    LET hours == 24 * (DayNumber(end) - DayNumber(start))
        n == hours \div IntervalHours(interval)
    IN  [k \in 1..n |->
            Candle(24 * DayNumber(start) + (k - 1) * IntervalHours(interval),
                   SymbolPrice(symbol) + v)]

(***************************************************************************)
(* fetchJson: the wire translation of object keys and the parse.           *)
(***************************************************************************)
LowerCase == "abcdefghijklmnopqrstuvwxyz"
UpperCase == "ABCDEFGHIJKLMNOPQRSTUVWXYZ"
Digits == "0123456789"

CharAt(s, i) == SubSeq(s, i, i)
Chars(s) == {CharAt(s, i) : i \in 1..Len(s)}
LowerChars == Chars(LowerCase)
UpperChars == Chars(UpperCase)
\* The regular expression class \w.
WordChars == LowerChars \cup UpperChars \cup Chars(Digits) \cup {"_"}

\* String.prototype.toUpperCase / toLowerCase on one character.
ToUpper(ch) ==
    IF ch \in LowerChars
    THEN CharAt(UpperCase, CHOOSE i \in 1..Len(LowerCase) : CharAt(LowerCase, i) = ch)
    ELSE ch
ToLower(ch) ==
    IF ch \in UpperChars
    THEN CharAt(LowerCase, CHOOSE i \in 1..Len(UpperCase) : CharAt(UpperCase, i) = ch)
    ELSE ch

\* objKey.replace(/([A-Z])/g, '_$1').toLowerCase()
RECURSIVE CamelToSnake(_)
CamelToSnake(k) ==
    IF Len(k) = 0 THEN ""
    ELSE (IF CharAt(k, 1) \in UpperChars
          THEN "_" \o ToLower(CharAt(k, 1))
          ELSE ToLower(CharAt(k, 1))) \o CamelToSnake(SubSeq(k, 2, Len(k)))

\* A reviver that takes a hyphen for a word separator as well.
RECURSIVE SnakeToCamelHyphen(_)
SnakeToCamelHyphen(k) ==
    IF Len(k) = 0 THEN ""
    ELSE IF CharAt(k, 1) \in {"_", "-"} /\ Len(k) >= 2 /\ CharAt(k, 2) \in WordChars
         THEN ToUpper(CharAt(k, 2)) \o SnakeToCamelHyphen(SubSeq(k, 3, Len(k)))
         ELSE CharAt(k, 1) \o SnakeToCamelHyphen(SubSeq(k, 2, Len(k)))

\* objKey.replace(/(_\w)/g, (k) => k[1].toUpperCase())
RECURSIVE SnakeToCamel(_)
SnakeToCamel(k) ==
    IF Len(k) = 0 THEN ""
    ELSE IF CharAt(k, 1) = "_" /\ Len(k) >= 2 /\ CharAt(k, 2) \in WordChars
         THEN ToUpper(CharAt(k, 2)) \o SnakeToCamel(SubSeq(k, 3, Len(k)))
         ELSE CharAt(k, 1) \o SnakeToCamel(SubSeq(k, 2, Len(k)))

\* The symbols the forms offer, and what the reviver makes of each as a key.
KnownSymbols == {"eth-btc", "ltc-btc", "xrp-btc", "xmr-btc", "ada-btc"}
KnownSymbolKey == [s \in KnownSymbols |-> SnakeToCamel(s)]

\* The two rewritings on the keys that cross the wire, computed once.
OutboundKey == [k \in DOMAIN BaseQuery |-> CamelToSnake(k)]
InboundKey == [k \in Symbols \cup CandleFields |-> SnakeToCamel(k)]

\* An object with its keys rewritten by the table f; of two keys rewritten
\* to the same key one entry survives.
RewriteKeys(obj, f) ==
    [k \in {f[j] : j \in DOMAIN obj} |-> obj[CHOOSE j \in DOMAIN obj : f[j] = k]]

\* camelToSnakeReplacer on the request body (its values are strings and an
\* array of strings, which the replacer returns as they are).
camelToSnakeReplacer(body) == RewriteKeys(body, OutboundKey)

\* snakeToCamelReviver on the response: on each candle object of each
\* array, and on the object from symbols to arrays.
snakeToCamelReviver(obj) ==
    RewriteKeys(
        [k \in DOMAIN obj |-> [i \in DOMAIN obj[k] |-> RewriteKeys(obj[k][i], InboundKey)]],
        InboundKey)

\* What the transport can deliver for the request req of a session: a
\* rejected fetch (network error), or an HTTP response whose text is not
\* JSON or is a JSON object from some symbols to their candle arrays.
StatusCodes == {200, 500}
JsonObjects(req, f) ==
    {[s \in D |-> ProviderSeries(req.interval, req.start, req.end, s, v)] :
        D \in SUBSET SessionSymbols(f), v \in Versions}
Texts(req, f) ==
    {[json |-> FALSE]} \cup {[json |-> TRUE, value |-> o] : o \in JsonObjects(req, f)}
Responses(req, f) ==
    {[kind |-> "reject"]} \cup
    {[kind |-> "http", status |-> st, text |-> t] : st \in StatusCodes, t \in Texts(req, f)}

\* fetchJson with a catch that turns a rejected fetch into an empty object.
fetchJsonCatchesReject(r) ==
    IF r.kind = "reject" THEN [threw |-> FALSE, value |-> EmptyObject]
    ELSE IF ~r.text.json THEN [threw |-> TRUE]
    ELSE [threw |-> FALSE, value |-> snakeToCamelReviver(r.text.value)]

\* fetchJson: it throws when fetch rejects or when JSON.parse fails, and
\* else returns the revived value; the status of the response is never read.
fetchJson(r) ==
    IF r.kind = "reject" THEN [threw |-> TRUE]
    ELSE IF ~r.text.json THEN [threw |-> TRUE]
    ELSE [threw |-> FALSE, value |-> snakeToCamelReviver(r.text.value)]

(***************************************************************************)
(* fetchCandles.                                                           *)
(***************************************************************************)
VARIABLES
    varied,          \* the query field this session's callers vary
    candles,         \* the Cache Store: this.candles / candleCache
    pc,              \* per caller: "idle", "awaiting", "unmounted", "returned", "failed"
    args,            \* per caller: the args of its call
    result,          \* per caller: the call's local result object
    missingSymbols,  \* per caller: the call's local missingSymbols array
    requests,        \* per caller: the request bodies the call handed to fetch
    response,        \* per caller: what the transport delivered to the call
    previous,        \* per caller: the call it had just settled, when this call repeats its query
    writer,          \* history: per key of the Cache Store, the caller whose call stored it last
    wire,            \* fetchJson on one value: the value given and the value that results
    view,            \* one component's symbolCandles state and the args of its last render
    info,            \* the optimize-info cache, the hook instances and the GET requests issued
    runs             \* a dashboard's history state and its optimize / backtest calls

\* The variables of the candle cache and of the other parts of the dashboard.
cacheVars == <<varied, candles, pc, args, result, missingSymbols, requests, response, previous, writer>>
otherVars == <<wire, view, info, runs>>
vars == <<cacheVars, otherVars>>

NoArgs == EmptyObject
NoResponse == [kind |-> "none"]
NoPrevious == [known |-> FALSE]

\* The other parts of the dashboard at rest.
NoWire == [dir |-> "none"]
NoView == [shown |-> "none"]
NoInfo == [cache |-> "none"]
NoRuns == [history |-> "none"]

\* new Chandler(): an empty store, no call in progress.
CacheInit ==
    /\ varied \in VariedFields
    /\ candles = EmptyObject
    /\ pc = [c \in Calls |-> "idle"]
    /\ args = [c \in Calls |-> NoArgs]
    /\ result = [c \in Calls |-> EmptyObject]
    /\ missingSymbols = [c \in Calls |-> <<>>]
    /\ requests = [c \in Calls |-> <<>>]
    /\ response = [c \in Calls |-> NoResponse]
    /\ previous = [c \in Calls |-> NoPrevious]
    /\ writer = EmptyObject

Init ==
    /\ CacheInit
    /\ wire = NoWire
    /\ view = NoView
    /\ info = NoInfo
    /\ runs = NoRuns

\* A store of its own for each caller: the entries its own calls stored.
CacheOfOwnWrites(c) ==
    [k \in {j \in DOMAIN candles : writer[j] = c} |-> candles[k]]

\* The store a caller's call works on: useContext(ChandlerContext) gives
\* every component the one module-level chandler (as candleCache is one
\* module-level object).
CacheOf(c) == candles

\* The probe loop with every requested symbol taken as missing.
ProbeMissingAll(a, cache) == a.symbols

\* The probe loop that also leaves out the symbols whose key a call in
\* flight has already requested.
ProbeMissingDeduplicated(a, cache) ==
    SelectSeq(a.symbols,
              LAMBDA s : /\ getKey(a, s) \notin DOMAIN cache
                         /\ \A d \in Calls :
                               pc[d] \in {"awaiting", "unmounted"} =>
                                  \A t \in Range(missingSymbols[d]) :
                                      getKey(args[d], t) # getKey(a, s))

\* The probe loop: the symbols whose key is absent, in list order.
ProbeMissing(a, cache) ==
    SelectSeq(a.symbols, LAMBDA s : getKey(a, s) \notin DOMAIN cache)

\* The probe loop with no symbol taken from the cache.
ProbeHitsNone(a, cache) == EmptyObject

\* The probe loop: result[symbol] = candles for the symbols whose key is present.
ProbeHits(a, cache) ==
    [s \in {x \in Range(a.symbols) : getKey(a, x) \in DOMAIN cache} |-> cache[getKey(a, s)]]

\* The request body with the whole symbols list of the query.
RequestBodyAllSymbols(a, missing) ==
    [exchange |-> a.exchange, interval |-> a.interval, start |-> a.start,
     end |-> a.end, symbols |-> a.symbols]

\* The request body with the interval read as getKey reads it.
RequestBodyIntervals(a, missing) ==
    [exchange |-> a.exchange, interval |-> TemplateField(a, "intervals"),
     start |-> a.start, end |-> a.end, symbols |-> missing]

\* The body handed to fetchJson('POST', '/candles', ...).
RequestBody(a, missing) ==
    [exchange |-> a.exchange, interval |-> a.interval, start |-> a.start,
     end |-> a.end, symbols |-> missing]

\* The write loop with the cache assignment left out.
WriteBackSkipped(cache, a, missingCandles) == cache

\* The write loop that keeps only the entries of this response in the cache.
WriteBackReplace(cache, a, missingCandles) ==
    [k \in {getKey(a, s) : s \in DOMAIN missingCandles} |->
        missingCandles[CHOOSE s \in DOMAIN missingCandles : getKey(a, s) = k]]

\* The write loop that stores the series of the response under the key of
\* every requested symbol as well.
WriteBackUnderAllRequested(cache, a, missingCandles) ==
    LET given == DOMAIN missingCandles
        named == IF given = {} THEN {} ELSE Range(a.symbols) \cup given
    IN  [k \in DOMAIN cache \cup {getKey(a, s) : s \in named} |->
            IF \E s \in given : getKey(a, s) = k
            THEN missingCandles[CHOOSE s \in given : getKey(a, s) = k]
            ELSE IF \E s \in Range(a.symbols) : getKey(a, s) = k
                 THEN missingCandles[CHOOSE s \in given : TRUE]
                 ELSE cache[k]]

\* The write loop that first drops the entries of the requested symbols.
WriteBackClearsRequested(cache, a, missingCandles) ==
    LET written == {getKey(a, s) : s \in DOMAIN missingCandles}
        cleared == {getKey(a, s) : s \in Range(a.symbols)}
    IN  [k \in (DOMAIN cache \ cleared) \cup written |->
            IF k \in written
            THEN missingCandles[CHOOSE s \in DOMAIN missingCandles : getKey(a, s) = k]
            ELSE cache[k]]

\* The write loop that stores a series only under a key that is absent.
WriteBackKeepExisting(cache, a, missingCandles) ==
    LET written == {getKey(a, s) : s \in DOMAIN missingCandles}
    IN  [k \in DOMAIN cache \cup written |->
            IF k \in DOMAIN cache THEN cache[k]
            ELSE missingCandles[CHOOSE s \in DOMAIN missingCandles : getKey(a, s) = k]]

\* The write loop that appends the series to the one already stored.
WriteBackAppend(cache, a, missingCandles) ==
    LET written == {getKey(a, s) : s \in DOMAIN missingCandles}
        new(k) == missingCandles[CHOOSE s \in DOMAIN missingCandles : getKey(a, s) = k]
    IN  [k \in DOMAIN cache \cup written |->
            IF k \notin written THEN cache[k]
            ELSE IF k \in DOMAIN cache THEN cache[k] \o new(k) ELSE new(k)]

\* The write loop that also stores an empty series for each requested
\* symbol the response omits.
WriteBackFillsOmitted(cache, a, missingCandles) ==
    LET named == Range(a.symbols) \cup DOMAIN missingCandles
    IN  [k \in DOMAIN cache \cup {getKey(a, s) : s \in named} |->
            IF \E s \in DOMAIN missingCandles : getKey(a, s) = k
            THEN missingCandles[CHOOSE s \in DOMAIN missingCandles : getKey(a, s) = k]
            ELSE IF k \in DOMAIN cache THEN cache[k] ELSE <<>>]

\* The write loop over Object.entries(missingCandles): the cache after it.
WriteBack(cache, a, missingCandles) ==
    LET written == {getKey(a, s) : s \in DOMAIN missingCandles}
    IN  [k \in DOMAIN cache \cup written |->
            IF k \in written
            THEN missingCandles[CHOOSE s \in DOMAIN missingCandles : getKey(a, s) = k]
            ELSE cache[k]]

\* The write loop that returns only the fetched entries.
AssembleFetchedOnly(res, missingCandles) == missingCandles

\* The write loop that keeps in the result the series a hit was given at
\* the probe.
AssembleKeepsHits(res, missingCandles) ==
    [s \in DOMAIN res \cup DOMAIN missingCandles |->
        IF s \in DOMAIN res THEN res[s] ELSE missingCandles[s]]

\* The write loop that leaves the fetched entries out of the result.
AssembleHitsOnly(res, missingCandles) == res

\* The write loop over Object.entries(missingCandles): the result after it.
Assemble(res, missingCandles) ==
    [s \in DOMAIN res \cup DOMAIN missingCandles |->
        IF s \in DOMAIN missingCandles THEN missingCandles[s] ELSE res[s]]

\* A call has settled (returned or thrown) and its caller has not yet run.
Settled(c) == pc[c] \in {"returned", "failed"}

\* A call is suspended at its await; its caller is mounted or has been
\* unmounted meanwhile.
Suspended(c) == pc[c] \in {"awaiting", "unmounted"}

\* fetchCandles(args) up to its await (or to its return when nothing is
\* missing).  The caller of a call that just settled may call again at
\* once; no other call starts before a settled call's caller has run.
Call(c, a) ==
    /\ ~Suspended(c)
    /\ \A d \in Calls \ {c} : ~Settled(d)
    /\ LET missing == ProbeMissing(a, CacheOf(c))
           hits == ProbeHits(a, CacheOf(c))
       IN  /\ args' = [args EXCEPT ![c] = a]
           /\ result' = [result EXCEPT ![c] = hits]
           /\ missingSymbols' = [missingSymbols EXCEPT ![c] = missing]
           /\ response' = [response EXCEPT ![c] = NoResponse]
           /\ IF Len(missing) > 0
              THEN /\ pc' = [pc EXCEPT ![c] = "awaiting"]
                   /\ requests' = [requests EXCEPT ![c] =
                          <<camelToSnakeReplacer(RequestBody(a, missing))>>]
              ELSE /\ pc' = [pc EXCEPT ![c] = "returned"]
                   /\ requests' = [requests EXCEPT ![c] = <<>>]
    /\ previous' = [previous EXCEPT ![c] =
           IF pc[c] = "returned" /\ args[c] = a
           THEN [known |-> TRUE, result |-> result[c],
                 missingSymbols |-> missingSymbols[c], fetches |-> Len(requests[c])]
           ELSE NoPrevious]
    /\ UNCHANGED <<varied, candles, writer>>

\* The continuation of fetchCandles after its await: fetchJson throws, or
\* the entries of its value are written to result and cache and result is
\* returned.
Respond(c, r) ==
    /\ Suspended(c)
    /\ \A d \in Calls : ~Settled(d)
    /\ response' = [response EXCEPT ![c] = r]
    /\ IF fetchJson(r).threw
       THEN /\ pc' = [pc EXCEPT ![c] = "failed"]
            /\ UNCHANGED <<candles, result, writer>>
       ELSE LET missingCandles == fetchJson(r).value
            IN  /\ pc' = [pc EXCEPT ![c] = "returned"]
                /\ result' = [result EXCEPT ![c] = Assemble(@, missingCandles)]
                /\ candles' = WriteBack(candles, args[c], missingCandles)
                /\ writer' = [k \in DOMAIN candles' |->
                                 IF k \in {getKey(args[c], s) : s \in DOMAIN missingCandles}
                                    \/ k \notin DOMAIN writer
                                 THEN c ELSE writer[k]]
    /\ UNCHANGED <<varied, args, missingSymbols, requests, previous>>

\* A caller calls fetchCandles with one of the session's queries.
Start(c) ==
    /\ \E a \in Queries(varied) : Call(c, a)
    /\ UNCHANGED otherVars

\* The transport delivers one of the outcomes of the request in flight.
Settle(c) ==
    /\ Suspended(c)
    /\ \E r \in Responses(requests[c][1], varied) : Respond(c, r)
    /\ UNCHANGED otherVars

\* The caller of a settled call takes its outcome and makes no further call.
Finish(c) ==
    /\ Settled(c)
    /\ pc' = [pc EXCEPT ![c] = "idle"]
    /\ args' = [args EXCEPT ![c] = NoArgs]
    /\ result' = [result EXCEPT ![c] = EmptyObject]
    /\ missingSymbols' = [missingSymbols EXCEPT ![c] = <<>>]
    /\ requests' = [requests EXCEPT ![c] = <<>>]
    /\ response' = [response EXCEPT ![c] = NoResponse]
    /\ previous' = [previous EXCEPT ![c] = NoPrevious]
    /\ UNCHANGED <<varied, candles, writer>>
    /\ UNCHANGED otherVars

\* The component of a call in flight is unmounted: its effect has no cleanup
\* and the call was given no abort signal, so the call stays suspended at
\* its await and resumes when the transport settles.  (An unmount is a task
\* of its own: it does not run between the return of a call and the
\* continuation of its caller.)
Unmount(c) ==
    /\ pc[c] = "awaiting"
    /\ \A d \in Calls : ~Settled(d)
    /\ pc' = [pc EXCEPT ![c] = "unmounted"]
    /\ UNCHANGED <<varied, candles, args, result, missingSymbols, requests, response,
                   previous, writer>>
    /\ UNCHANGED otherVars

Next ==
    \/ \E c \in Calls : Start(c)
    \/ \E c \in Calls : Settle(c)
    \/ \E c \in Calls : Finish(c)
    \/ \E c \in Calls : Unmount(c)

Spec == Init /\ [][Next]_vars

(***************************************************************************)
(* fetchJson on any JSON value: JSON.stringify with camelToSnakeReplacer   *)
(* and JSON.parse with snakeToCamelReviver.  A JSON text is represented by *)
(* the value it denotes.                                                   *)
(***************************************************************************)
\* The longest array in the values tried.
MaxArrayLen == 2

\* JSON values: a primitive (p), an array of values (a), an object from keys
\* to values (o); the parts a value does not have are empty.
Prim(x) == [t |-> "prim", p |-> x, a |-> <<>>, o |-> EmptyObject]
Arr(q) == [t |-> "arr", p |-> "", a |-> q, o |-> EmptyObject]
Obj(f) == [t |-> "obj", p |-> "", a |-> <<>>, o |-> f]
NoValue == [t |-> "none", p |-> "", a |-> <<>>, o |-> EmptyObject]

\* Keys of request bodies (camel case) and of responses (underscore form,
\* and a symbol).
BodyKeys == {"stopLoss", "trainingSymbols"}
ResponseKeys == {"symbol_stats", "eth-btc"}

\* The two key rewritings on those keys, computed once.
CamelToSnakeOf == [k \in BodyKeys \cup ResponseKeys |-> CamelToSnake(k)]
SnakeToCamelOf == [k \in BodyKeys \cup ResponseKeys |-> SnakeToCamel(k)]

\* const replacement = {}; for each entry: replacement[<rewritten key>] = objValue.
Replacement(f, conv) ==
    [k \in {conv[j] : j \in DOMAIN f} |-> f[CHOOSE j \in DOMAIN f : conv[j] = k]]

\* Object.entries of an array: its indices as keys.
IndexKey == <<"0", "1", "2", "3">>
ArrayEntries(q) == [k \in {IndexKey[i] : i \in DOMAIN q} |-> q[CHOOSE i \in DOMAIN q : IndexKey[i] = k]]

\* camelToSnakeReplacer without the Array.isArray test.
replaceValueNoArrayTest(value) ==
    CASE value.t = "obj" -> Obj(Replacement(value.o, CamelToSnakeOf))
      [] value.t = "arr" -> Obj(ArrayEntries(value.a))
      [] OTHER -> value

\* camelToSnakeReplacer(_key, value) on one value of the tree.
replaceValue(value) ==
    IF value.t = "obj" THEN Obj(Replacement(value.o, CamelToSnakeOf)) ELSE value

\* snakeToCamelReviver(_key, value) on one value of the tree.
reviveValue(value) ==
    IF value.t = "obj" THEN Obj(Replacement(value.o, SnakeToCamelOf)) ELSE value

\* JSON.stringify(body, camelToSnakeReplacer): the replacer is called on a
\* value, and the properties or elements of what it returns are serialized
\* in turn.
RECURSIVE stringify(_)
stringify(value) ==
    LET r == replaceValue(value)
    IN  CASE r.t = "obj" -> Obj([k \in DOMAIN r.o |-> stringify(r.o[k])])
          [] r.t = "arr" -> Arr([i \in DOMAIN r.a |-> stringify(r.a[i])])
          [] OTHER -> r

\* JSON.parse(text, snakeToCamelReviver): the properties or elements of a
\* value are revived first, then the reviver is called on the value.
RECURSIVE parse(_)
parse(value) ==
    reviveValue(
        CASE value.t = "obj" -> Obj([k \in DOMAIN value.o |-> parse(value.o[k])])
          [] value.t = "arr" -> Arr([i \in DOMAIN value.a |-> parse(value.a[i])])
          [] OTHER -> value)

\* The values tried: primitives, and arrays and objects nested three deep.
Prims == {Prim("1"), Prim("a_bC")}
ArraysOf(V) == UNION {[1..n -> V] : n \in 0..MaxArrayLen}
ObjectsOf(K, V) == UNION {[D -> V] : D \in SUBSET K}
Depth1(K) == {Arr(q) : q \in ArraysOf(Prims)} \cup {Obj(f) : f \in ObjectsOf(K, Prims)}
Depth2(K) ==
    {Arr(<<x>>) : x \in Depth1(K)}
        \cup {Obj(f) : f \in UNION {[D -> Depth1(K)] : D \in SUBSET K \ {{}}}}
Depth3(K) ==
    {Arr(<<x>>) : x \in Depth2(K)} \cup {Obj([k \in {j} |-> x]) : j \in K, x \in Depth2(K)}
JsonValues(K) == Prims \cup Depth1(K) \cup Depth2(K) \cup Depth3(K)

WireInit ==
    /\ CacheInit
    /\ varied = "symbols"
    /\ wire \in {[dir |-> "out", given |-> b, done |-> FALSE, result |-> NoValue] :
                     b \in JsonValues(BodyKeys)}
                \cup {[dir |-> "in", given |-> t, done |-> FALSE, result |-> NoValue] :
                         t \in JsonValues(ResponseKeys)}
    /\ view = NoView
    /\ info = NoInfo
    /\ runs = NoRuns

\* fetchJson serializes the body it was given.
SendBody ==
    /\ wire.dir = "out"
    /\ ~wire.done
    /\ wire' = [wire EXCEPT !.done = TRUE, !.result = stringify(wire.given)]
    /\ UNCHANGED <<cacheVars, view, info, runs>>

\* fetchJson parses the text of the response.
ReceiveText ==
    /\ wire.dir = "in"
    /\ ~wire.done
    /\ wire' = [wire EXCEPT !.done = TRUE, !.result = parse(wire.given)]
    /\ UNCHANGED <<cacheVars, view, info, runs>>

WireNext == SendBody \/ ReceiveText

WireSpec == WireInit /\ [][WireNext]_vars

(***************************************************************************)
(* useSymbolCandles / TradingResult: a component whose effect calls        *)
(* fetchCandles on every change of args and puts what the call returns     *)
(* into its symbolCandles state.                                           *)
(***************************************************************************)
\* useState({}) before any effect has run.
ViewInit ==
    /\ CacheInit
    /\ varied = "symbols"
    /\ wire = NoWire
    /\ view = [latest |-> NoArgs, latestBy |-> 0, latestSet |-> FALSE,
               symbolCandles |-> EmptyObject, shownFor |-> NoArgs]
    /\ info = NoInfo
    /\ runs = NoRuns

\* The component renders with other args: the effect runs (its dependency
\* changed) and its async function calls fetchCandles.  The effect returns
\* no cleanup, so the calls of earlier runs stay in progress.
ChangeArgs(c) ==
    /\ pc[c] = "idle"
    /\ \E a \in Queries(varied) :
          /\ a # view.latest
          /\ Call(c, a)
          /\ view' = [view EXCEPT !.latest = a, !.latestBy = c, !.latestSet = FALSE]
    /\ UNCHANGED <<wire, info, runs>>

\* setSymbolCandles(await fetchCandles(...)): the continuation of the
\* effect's async function once its call has returned.
SetSymbolCandles(c) ==
    /\ pc[c] = "returned"
    /\ view' = [view EXCEPT !.symbolCandles = result[c], !.shownFor = args[c],
                            !.latestSet = IF view.latestBy = c THEN TRUE ELSE @]
    /\ pc' = [pc EXCEPT ![c] = "idle"]
    /\ args' = [args EXCEPT ![c] = NoArgs]
    /\ result' = [result EXCEPT ![c] = EmptyObject]
    /\ missingSymbols' = [missingSymbols EXCEPT ![c] = <<>>]
    /\ requests' = [requests EXCEPT ![c] = <<>>]
    /\ response' = [response EXCEPT ![c] = NoResponse]
    /\ previous' = [previous EXCEPT ![c] = NoPrevious]
    /\ UNCHANGED <<varied, candles, writer>>
    /\ UNCHANGED <<wire, info, runs>>

\* The call threw: the promise of the effect's async function is rejected
\* and nothing is set.
Rejected(c) ==
    /\ pc[c] = "failed"
    /\ Finish(c)

ViewNext ==
    \/ \E c \in Calls : ChangeArgs(c)
    \/ \E c \in Calls : Settle(c)
    \/ \E c \in Calls : SetSymbolCandles(c)
    \/ \E c \in Calls : Rejected(c)

ViewSpec == ViewInit /\ [][ViewNext]_vars

(***************************************************************************)
(* useOptimizeInfo / useEvaluationStatistics: a module-level cache that    *)
(* starts as null and is filled by the first GET /optimize to return.      *)
(***************************************************************************)
\* The hook instances that can be mounted at a time, and the GET requests
\* a session issues at most.
MaxHooks == 3
MaxRequests == 3
Hooks == 1..MaxHooks

\* What the server can answer to GET /optimize.
InfoValues == {"info1", "info2"}

\* let optimizeInfoCache = null; no hook mounted.
InfoInit ==
    /\ CacheInit
    /\ varied = "symbols"
    /\ wire = NoWire
    /\ view = NoView
    /\ info = [cache |-> "null",
               call |-> [h \in Hooks |-> "idle"],
               optimizeInfo |-> [h \in Hooks |-> "{}"],
               issued |-> 0]
    /\ runs = NoRuns

\* A component using the hook mounts: its effect calls fetchOptimizeInfo,
\* which tests the cache and, finding null, awaits fetchJson; finding a
\* value, it returns it and the effect sets it.
MountHook(h) ==
    /\ info.call[h] = "idle"
    /\ IF info.cache = "null"
       THEN /\ info.issued < MaxRequests
            /\ info' = [info EXCEPT !.call[h] = "awaiting", !.issued = @ + 1]
       ELSE info' = [info EXCEPT !.call[h] = "set", !.optimizeInfo[h] = info.cache]
    /\ UNCHANGED <<cacheVars, wire, view, runs>>

\* The continuation of fetchOptimizeInfo after its await: fetchJson threw,
\* or its value is assigned to the cache, returned and set by the effect.
RespondInfo(h) ==
    /\ info.call[h] = "awaiting"
    /\ \/ info' = [info EXCEPT !.call[h] = "failed"]
       \/ \E v \in InfoValues :
             info' = [info EXCEPT !.cache = v, !.call[h] = "set", !.optimizeInfo[h] = v]
    /\ UNCHANGED <<cacheVars, wire, view, runs>>

\* The component is unmounted after its call has completed; the module and
\* its cache stay.
UnmountHook(h) ==
    /\ info.call[h] \in {"set", "failed"}
    /\ info' = [info EXCEPT !.call[h] = "idle", !.optimizeInfo[h] = "{}"]
    /\ UNCHANGED <<cacheVars, wire, view, runs>>

InfoNext ==
    \/ \E h \in Hooks : MountHook(h)
    \/ \E h \in Hooks : RespondInfo(h)
    \/ \E h \in Hooks : UnmountHook(h)

InfoSpec == InfoInit /\ [][InfoNext]_vars

(***************************************************************************)
(* The optimization and backtest dashboards: the history state and the     *)
(* optimize / backtest function of each render, which closes over the      *)
(* history of that render.                                                 *)
(***************************************************************************)
\* history.length === 10
HistoryLimit == 10
\* The runs started in a session at most, and the calls that can be in
\* progress at a time.
MaxRuns == 11
RunSlots == {1, 2}

NoRun == [state |-> "idle", id |-> 0, history |-> <<>>]

\* useState([]) / useLocalStorageState(..., []): an empty history, no call
\* in progress.  A history item is represented by the number of its run.
HistoryInit ==
    /\ CacheInit
    /\ varied = "symbols"
    /\ wire = NoWire
    /\ view = NoView
    /\ info = NoInfo
    /\ runs = [history |-> <<>>,
               call |-> [s \in RunSlots |-> NoRun],
               started |-> 0,
               completed |-> 0,
               last |-> 0]

\* The button is clicked: the optimize / backtest function of the current
\* render is called, with the history of that render in its closure, and
\* suspends at its await.  The button stays enabled while a call is in
\* progress.
Optimize(s) ==
    /\ runs.call[s].state = "idle"
    /\ runs.started < MaxRuns
    /\ runs' = [runs EXCEPT !.started = @ + 1,
                            !.call[s] = [state |-> "awaiting", id |-> runs.started + 1,
                                         history |-> runs.history]]
    /\ UNCHANGED <<cacheVars, wire, view, info>>

\* The continuation after the await: the item of the run is put before the
\* history of the closure, less its last item when that history has 10.
CompleteRun(s) ==
    /\ runs.call[s].state = "awaiting"
    /\ LET history == runs.call[s].history
           historyItem == runs.call[s].id
       IN  runs' = [runs EXCEPT
                       !.history = IF Len(history) = HistoryLimit
                                   THEN <<historyItem>> \o SubSeq(history, 1, Len(history) - 1)
                                   ELSE <<historyItem>> \o history,
                       !.call[s] = NoRun,
                       !.completed = @ + 1,
                       !.last = historyItem]
    /\ UNCHANGED <<cacheVars, wire, view, info>>

\* fetchJson throws: the function ends at its await and sets nothing.
FailRun(s) ==
    /\ runs.call[s].state = "awaiting"
    /\ runs' = [runs EXCEPT !.call[s] = NoRun]
    /\ UNCHANGED <<cacheVars, wire, view, info>>

HistoryNext ==
    \/ \E s \in RunSlots : Optimize(s)
    \/ \E s \in RunSlots : CompleteRun(s)
    \/ \E s \in RunSlots : FailRun(s)

HistorySpec == HistoryInit /\ [][HistoryNext]_vars

(***************************************************************************)
(* The properties.                                                         *)
(***************************************************************************)
Active(c) == pc[c] # "idle"
Requested(c) == Range(args[c].symbols)
MissSymbols(c) == Range(missingSymbols[c])
HitSymbols(c) == Requested(c) \ MissSymbols(c)

\* The object the provider's response carried, as parsed; empty when there
\* was no response or no JSON in it.
Parsed(c) ==
    IF response[c].kind = "http" /\ response[c].text.json
    THEN snakeToCamelReviver(response[c].text.value)
    ELSE EmptyObject

\* The series the provider serves for symbol s of query a, at any revision.
SeriesOf(a, s) ==
    {ProviderSeries(a.interval, a.start, a.end, s, v) : v \in Versions}

\* In this step caller c starts a call.
StartsCall(c) == ~Suspended(c) /\ pc'[c] \in {"awaiting", "returned"}

\* In this step the call of caller c resumes from its await.
Resumes(c) == Suspended(c) /\ pc'[c] \in {"returned", "failed"}

\* C1, as stated: the Result of every call that completes has exactly the
\* requested symbols as its keys, whatever the provider answered.
C1_ResultHasExactlyRequested ==
    \A c \in Calls : pc[c] = "returned" => DOMAIN result[c] = Requested(c)

\* C1, amended: the keys of the Result of a call that completes are its hit
\* symbols together with the keys of the provider's response; they are
\* exactly the requested symbols when the response maps exactly the miss
\* symbols.
C1_ResultKeys ==
    \A c \in Calls : pc[c] = "returned" =>
        /\ DOMAIN result[c] = HitSymbols(c) \cup DOMAIN Parsed(c)
        /\ DOMAIN Parsed(c) = MissSymbols(c) => DOMAIN result[c] = Requested(c)

\* A call with a hit and a miss completed on a response for exactly the miss.
C1_Witness ==
    \E c \in Calls :
        /\ pc[c] = "returned"
        /\ HitSymbols(c) = {"eth-btc"}
        /\ MissSymbols(c) = {"ltc-btc"}
        /\ DOMAIN Parsed(c) = {"ltc-btc"}
        /\ DOMAIN result[c] = {"eth-btc", "ltc-btc"}

\* C2, as stated: the cache key is exact on all five fields, so a symbol is
\* a hit only on a series fetched for the call's own exchange, interval,
\* start and end; a query that differs in interval misses and fetches.
C2_HitIsForSameFiveFields ==
    \A c \in Calls : Active(c) =>
        \A s \in HitSymbols(c) : result[c][s] \in SeriesOf(args[c], s)

\* C3, as stated: a call that repeats the query of the call its caller just
\* completed makes the fetches of the two calls exactly one in total.
C3_ExactlyOneFetchInTotal ==
    \A c \in Calls : Settled(c) /\ previous[c].known =>
        previous[c].fetches + Len(requests[c]) = 1

\* C3, amended: when the first call returned and the response to it held
\* every symbol it missed, the repeated call issues no fetch, and the two
\* calls issue one fetch in total if the first call missed a symbol and none
\* if it missed nothing.
C3_RepeatFetchesNothing ==
    \A c \in Calls :
        (/\ Active(c)
         /\ previous[c].known
         /\ Range(previous[c].missingSymbols) \subseteq DOMAIN previous[c].result)
        => /\ requests[c] = <<>>
           /\ previous[c].fetches + Len(requests[c]) =
                 (IF previous[c].missingSymbols # <<>> THEN 1 ELSE 0)

\* A repeated call settled without a fetch after a first call that fetched.
C3_Witness ==
    \E c \in Calls :
        /\ pc[c] = "returned"
        /\ previous[c].known
        /\ previous[c].fetches = 1
        /\ Range(previous[c].missingSymbols) \subseteq DOMAIN previous[c].result
        /\ requests[c] = <<>>

\* C4: the request of a call names exactly the symbols whose key was absent
\* when the call probed the cache, in the order of the list, and a hit
\* symbol is in the Result without a fetch; a symbol whose series the Result
\* of the caller's last call held is not fetched again by its repeat.
C4_RequestNamesExactlyTheMisses ==
    [][\A c \in Calls :
          /\ StartsCall(c) =>
                LET a == args'[c]
                    absent == {s \in Range(a.symbols) : getKey(a, s) \notin DOMAIN candles}
                IN  /\ Range(missingSymbols'[c]) = absent
                    /\ DOMAIN result'[c] = Range(a.symbols) \ absent
                    /\ IF absent = {}
                       THEN requests'[c] = <<>>
                       ELSE /\ Len(requests'[c]) = 1
                            /\ Range(requests'[c][1].symbols) = absent
          /\ previous'[c].known =>
                Range(missingSymbols'[c]) \cap DOMAIN previous'[c].result = {}
      ]_vars

\* With eth-btc cached and ltc-btc not, the call for both awaits one request
\* whose symbols list is ltc-btc alone.
C4_Witness ==
    \E c \in Calls :
        /\ pc[c] = "awaiting"
        /\ args[c].symbols = <<"eth-btc", "ltc-btc">>
        /\ DOMAIN result[c] = {"eth-btc"}
        /\ Len(requests[c]) = 1
        /\ requests[c][1].symbols = <<"ltc-btc">>

\* C5: a symbol is a hit only on a series that was fetched for the call's
\* own end, so a series cached for one end is never returned for, and never
\* keeps a symbol out of the request of, a query with another end.
C5_HitIsForSameEnd ==
    \A c \in Calls : Active(c) =>
        \A s \in HitSymbols(c) :
            \E i \in Intervals :
                result[c][s] \in SeriesOf([args[c] EXCEPT !.interval = i], s)

\* With the series for one end cached, the call for the other end awaits its
\* own fetch of the symbol.
C5_Witness ==
    \E c \in Calls :
        /\ pc[c] = "awaiting"
        /\ args[c].end = "2020-01-03"
        /\ getKey([args[c] EXCEPT !.end = "2020-01-02"], "eth-btc") \in DOMAIN candles
        /\ missingSymbols[c] = <<"eth-btc">>
        /\ requests[c][1].end = "2020-01-03"

\* C6: a call has issued one request when it missed a symbol and none when
\* it missed nothing, at every point of its life and also after the request
\* failed; the request carries the query's exchange, interval, start and end
\* and the miss symbols.
C6_OneRequestPerCall ==
    \A c \in Calls : Active(c) =>
        IF missingSymbols[c] = <<>>
        THEN requests[c] = <<>>
        ELSE /\ Len(requests[c]) = 1
             /\ requests[c][1] =
                   [exchange |-> args[c].exchange, interval |-> args[c].interval,
                    start |-> args[c].start, end |-> args[c].end,
                    symbols |-> missingSymbols[c]]

\* A call whose request failed has issued that one request and no other.
C6_Witness ==
    \E c \in Calls :
        /\ pc[c] = "failed"
        /\ Len(requests[c]) = 1
        /\ requests[c][1].interval = "12h"

\* C7: inside one call the cache is read before the request is sent and not
\* again, the response arrives before any write, and the writes are done
\* when the Result is returned: a step that sends a request leaves the cache
\* as it is; the cache changes only in a step in which a response arrives at
\* an awaiting call; and in the step in which a call returns after its
\* await, the hits of its probe are in the Result as they were read and
\* every entry of the response is in the cache.
C7_ReadsFetchWritesReturn ==
    [][/\ \A c \in Calls :
             StartsCall(c) /\ pc'[c] = "awaiting" =>
                /\ candles' = candles
                /\ \A s \in DOMAIN result'[c] : result'[c][s] = candles[getKey(args'[c], s)]
       /\ candles' # candles =>
             \E c \in Calls : Resumes(c) /\ pc'[c] = "returned" /\ response'[c].kind = "http"
       /\ \A c \in Calls :
             Resumes(c) /\ pc'[c] = "returned" =>
                LET got == snakeToCamelReviver(response'[c].text.value)
                IN  /\ \A s \in DOMAIN result[c] \ DOMAIN got : result'[c][s] = result[c][s]
                    /\ \A s \in DOMAIN got :
                          /\ getKey(args[c], s) \in DOMAIN candles'
                          /\ candles'[getKey(args[c], s)] = got[s]
      ]_vars

\* A call returned its hit as read at the probe, although the entry was
\* overwritten by another call while it awaited, and its own fetched series
\* is in the cache.
C7_Witness ==
    \E c \in Calls :
        /\ pc[c] = "returned"
        /\ HitSymbols(c) = {"eth-btc"}
        /\ "ltc-btc" \in DOMAIN Parsed(c)
        /\ candles[getKey(args[c], "ltc-btc")] = result[c]["ltc-btc"]
        /\ candles[getKey(args[c], "eth-btc")] # result[c]["eth-btc"]

\* C8: no step removes a key from the Cache Store.
C8_CacheOnlyGrows ==
    [][\A k \in DOMAIN candles : k \in DOMAIN candles']_vars

\* The cache still holds two entries after a call failed.
C8_Witness ==
    \E c \in Calls : pc[c] = "failed" /\ Cardinality(DOMAIN candles) = 2

\* C9: when the fetch of a call rejects, the call fails, returning no
\* Result, and neither that step nor the step that started the call changes
\* the Cache Store.
C9_RejectFailsWholeCall ==
    [][\A c \in Calls :
          /\ Resumes(c) /\ response'[c].kind = "reject" =>
                pc'[c] = "failed" /\ candles' = candles
          /\ StartsCall(c) => candles' = candles
      ]_vars

\* A call with a hit failed on a rejected fetch.
C9_Witness ==
    \E c \in Calls :
        /\ pc[c] = "failed"
        /\ response[c].kind = "reject"
        /\ HitSymbols(c) # {}

\* C10, as stated: a call whose request is answered with a non-success
\* status fails, and nothing of that response is in its Result.
C10_NonSuccessStatusFails ==
    \A c \in Calls :
        Settled(c) /\ response[c].kind = "http" /\ response[c].status # 200 =>
            pc[c] = "failed" /\ DOMAIN result[c] = HitSymbols(c)

\* C11: when the response to a call covers only a strict subset of the
\* symbols the call missed, the call returns, and every symbol the response
\* covers is in the Result and under its key in the Cache Store with the
\* series the response held for it, the hits staying in the Result.
C11_PartialResponseKeepsSuccesses ==
    [][\A c \in Calls :
          Resumes(c) /\ response'[c].kind = "http" /\ response'[c].text.json =>
             LET got == snakeToCamelReviver(response'[c].text.value)
             IN  (DOMAIN got \subseteq MissSymbols(c) /\ DOMAIN got # MissSymbols(c)) =>
                    /\ pc'[c] = "returned"
                    /\ \A s \in DOMAIN got :
                          /\ s \in DOMAIN result'[c] /\ result'[c][s] = got[s]
                          /\ getKey(args[c], s) \in DOMAIN candles'
                          /\ candles'[getKey(args[c], s)] = got[s]
                    /\ \A s \in HitSymbols(c) : s \in DOMAIN result'[c]
      ]_vars

\* A call that missed eth-btc and ltc-btc returned on a response that held
\* eth-btc alone, with eth-btc in its Result and in the Cache Store.
C11_Witness ==
    \E c \in Calls :
        /\ pc[c] = "returned"
        /\ MissSymbols(c) = {"eth-btc", "ltc-btc"}
        /\ DOMAIN Parsed(c) = {"eth-btc"}
        /\ DOMAIN result[c] = {"eth-btc"}
        /\ getKey(args[c], "eth-btc") \in DOMAIN candles

\* C12, as stated: when a call has completed on a response that omits a
\* symbol it missed, the symbol has no entry in the Result and its key none
\* in the Cache Store, and the caller's repeat of the query misses it again.
C12_OmittedSymbolIsAbsentEverywhere ==
    \A c \in Calls :
        /\ pc[c] = "returned" /\ response[c].kind = "http" =>
              \A s \in MissSymbols(c) \ DOMAIN Parsed(c) :
                  s \notin DOMAIN result[c] /\ getKey(args[c], s) \notin DOMAIN candles
        /\ Active(c) /\ previous[c].known =>
              \A s \in Range(previous[c].missingSymbols) \ DOMAIN previous[c].result :
                  s \in MissSymbols(c)

\* C12, amended: a call whose response omits a symbol it missed returns,
\* without the symbol in its Result and without storing anything under the
\* symbol's key (the key is in the store afterwards only as an overlapping
\* call left it); and the caller's repeat of the query, when the key is
\* absent at its probe, misses the symbol and names it in its request.
C12_OmittedSymbolIsNotStored ==
    [][\A c \in Calls :
          /\ Resumes(c) /\ response'[c].kind = "http" /\ response'[c].text.json =>
                \A s \in MissSymbols(c) \ DOMAIN snakeToCamelReviver(response'[c].text.value) :
                    LET k == getKey(args[c], s)
                    IN  /\ pc'[c] = "returned"
                        /\ s \notin DOMAIN result'[c]
                        /\ k \in DOMAIN candles' => k \in DOMAIN candles /\ candles'[k] = candles[k]
          /\ StartsCall(c) /\ previous'[c].known =>
                \A s \in Range(previous'[c].missingSymbols) \ DOMAIN previous'[c].result :
                    getKey(args'[c], s) \notin DOMAIN candles =>
                        /\ s \in Range(missingSymbols'[c])
                        /\ s \in Range(requests'[c][1].symbols)
      ]_vars

\* After a call that completed on a response without eth-btc, the repeat of
\* its query awaits a request that names eth-btc again.
C12_Witness ==
    \E c \in Calls :
        /\ pc[c] = "awaiting"
        /\ previous[c].known
        /\ "eth-btc" \in Range(previous[c].missingSymbols) \ DOMAIN previous[c].result
        /\ getKey(args[c], "eth-btc") \notin DOMAIN candles
        /\ "eth-btc" \in Range(requests[c][1].symbols)

\* C13, as stated: a call whose caller gave it up (was unmounted) before
\* its fetch resolved writes nothing to the Cache Store when the fetch
\* resolves, and a call of another caller in flight at that time is left as
\* it is, to complete on its own response.
C13_CancelledCallWritesNothing ==
    [][\A c \in Calls :
          pc[c] = "unmounted" /\ Resumes(c) =>
             /\ candles' = candles
             /\ \A d \in Calls \ {c} :
                   pc[d] = "awaiting" =>
                      /\ pc'[d] = "awaiting"
                      /\ requests'[d] = requests[d]
                      /\ result'[d] = result[d]
      ]_vars

\* C14, as stated: the Cache Store holds only provider-confirmed series:
\* every entry a step stores or replaces is the series that a response with
\* success status held for the entry's symbol, in answer to the request of
\* the storing call, and is a series the provider serves for that symbol
\* and the call's exchange, interval, start and end; no other step changes
\* the store.
C14_OnlyConfirmedSeriesCached ==
    [][\A k \in DOMAIN candles' :
          (k \notin DOMAIN candles \/ candles'[k] # candles[k]) =>
             \E c \in Calls :
                /\ Resumes(c)
                /\ response'[c].kind = "http"
                /\ response'[c].status = 200
                /\ response'[c].text.json
                /\ \E s \in DOMAIN response'[c].text.value :
                      /\ k = getKey(args[c], s)
                      /\ candles'[k] = snakeToCamelReviver(response'[c].text.value)[s]
                      /\ candles'[k] \in SeriesOf(args[c], s)
      ]_vars

\* C15, as stated: the Result of a call that repeats the query of the call
\* its caller just completed equals the Result of that call.
C15_RepeatReturnsSameResult ==
    \A c \in Calls :
        pc[c] = "returned" /\ previous[c].known => result[c] = previous[c].result

\* C15, amended: when a caller repeats the query of the call it just
\* completed, and the Result of that call held exactly the requested symbols
\* and the Cache Store maps the key of each to the series that Result held
\* (no overlapping call stored another one), the repeat returns at once,
\* without a request, a Result equal to the first.
C15_RepeatReturnsSameResultFromStore ==
    [][\A c \in Calls :
          (/\ StartsCall(c)
           /\ pc[c] = "returned"
           /\ args'[c] = args[c]
           /\ DOMAIN result[c] = Requested(c)
           /\ \A s \in Requested(c) :
                 /\ getKey(args[c], s) \in DOMAIN candles
                 /\ candles[getKey(args[c], s)] = result[c][s])
          => /\ pc'[c] = "returned"
             /\ requests'[c] = <<>>
             /\ result'[c] = result[c]
      ]_vars

\* A repeated call returned the Result of the first call, which had fetched
\* a series.
C15_Witness ==
    \E c \in Calls :
        /\ pc[c] = "returned"
        /\ previous[c].known
        /\ previous[c].fetches = 1
        /\ DOMAIN previous[c].result = Requested(c)
        /\ result[c] = previous[c].result

\* C16, as stated: the key composition is injective over the fields in use:
\* when the keys that two calls in progress compose for two of their symbols
\* are equal, the symbols are equal and so are the calls' exchange, interval,
\* start and end.
C16_KeyInjective ==
    \A c, d \in Calls :
        Active(c) /\ Active(d) =>
            \A s \in Requested(c), t \in Requested(d) :
                getKey(args[c], s) = getKey(args[d], t) =>
                    /\ s = t
                    /\ args[c].exchange = args[d].exchange
                    /\ args[c].interval = args[d].interval
                    /\ args[c].start = args[d].start
                    /\ args[c].end = args[d].end

\* C17: a call that probes the cache while another call is suspended at its
\* fetch of a symbol with the same key, the key being absent, misses that
\* symbol too and issues its own request naming it; the request of the
\* other call stays outstanding.
C17_OverlappingCallsBothFetch ==
    [][\A c \in Calls, d \in Calls :
          (c # d /\ StartsCall(c) /\ pc[d] \in {"awaiting", "unmounted"}) =>
             \A s \in Range(args'[c].symbols), t \in Range(missingSymbols[d]) :
                 (/\ getKey(args'[c], s) = getKey(args[d], t)
                  /\ getKey(args[d], t) \notin DOMAIN candles)
                 => /\ s \in Range(missingSymbols'[c])
                    /\ pc'[c] = "awaiting"
                    /\ Len(requests'[c]) = 1
                    /\ s \in Range(requests'[c][1].symbols)
                    /\ pc'[d] = pc[d]
                    /\ requests'[d] = requests[d]
      ]_vars

\* Two calls are suspended, each on its own request for eth-btc under one key.
C17_Witness ==
    /\ \A c \in Calls :
          /\ pc[c] = "awaiting"
          /\ Len(requests[c]) = 1
          /\ "eth-btc" \in Range(requests[c][1].symbols)
    /\ getKey(args[1], "eth-btc") = getKey(args[2], "eth-btc")
    /\ getKey(args[1], "eth-btc") \notin DOMAIN candles

\* C18: every caller resolves through the one Cache Store: a call that
\* probes a key whose entry the call of another caller stored takes that
\* entry as a hit, with the stored series, and does not request the symbol.
C18_StoredByOneHitForAll ==
    [][\A c \in Calls :
          StartsCall(c) =>
             \A s \in Range(args'[c].symbols) :
                 LET k == getKey(args'[c], s)
                 IN  (k \in DOMAIN candles /\ writer[k] # c) =>
                        /\ s \in DOMAIN result'[c]
                        /\ result'[c][s] = candles[k]
                        /\ s \notin Range(missingSymbols'[c])
      ]_vars

\* A call returned at once with the series another caller's call stored.
C18_Witness ==
    \E c \in Calls :
        /\ pc[c] = "returned"
        /\ requests[c] = <<>>
        /\ "eth-btc" \in DOMAIN result[c]
        /\ getKey(args[c], "eth-btc") \in DOMAIN writer
        /\ writer[getKey(args[c], "eth-btc")] # c
        /\ result[c]["eth-btc"] = candles[getKey(args[c], "eth-btc")]

\* C19: store writes are idempotent: a step that stores, under keys that
\* already hold them, the same series again leaves the Cache Store as it
\* was; after any storing step, applying the same writes once more changes
\* nothing, and a lookup of each written key gives the series written.
C19_IdempotentWrites ==
    [][\A c \in Calls :
          Resumes(c) /\ pc'[c] = "returned" =>
             LET got == snakeToCamelReviver(response'[c].text.value)
             IN  /\ (\A s \in DOMAIN got :
                        /\ getKey(args[c], s) \in DOMAIN candles
                        /\ candles[getKey(args[c], s)] = got[s])
                     => candles' = candles
                 /\ WriteBack(candles', args[c], got) = candles'
                 /\ \A s \in DOMAIN got : candles'[getKey(args[c], s)] = got[s]
      ]_vars

\* A call has just stored for eth-btc the series that was already under the
\* key: the other caller's call, suspended now, had taken it as a hit.
C19_Witness ==
    \E c \in Calls, d \in Calls :
        /\ c # d
        /\ pc[c] = "returned"
        /\ "eth-btc" \in DOMAIN Parsed(c)
        /\ pc[d] = "awaiting"
        /\ "eth-btc" \in DOMAIN result[d]
        /\ getKey(args[d], "eth-btc") = getKey(args[c], "eth-btc")
        /\ result[d]["eth-btc"] = Parsed(c)["eth-btc"]
        /\ candles[getKey(args[c], "eth-btc")] = Parsed(c)["eth-btc"]

\* C20: when a call has completed on a response, the Cache Store maps, for
\* every symbol of the response, the key of that symbol for the call's
\* exchange, interval, start and end to exactly the series the response
\* held for it.
C20_WriteBack ==
    \A c \in Calls :
        pc[c] = "returned" /\ response[c].kind = "http" =>
            \A s \in DOMAIN Parsed(c) :
                /\ getKey(args[c], s) \in DOMAIN candles
                /\ candles[getKey(args[c], s)] = Parsed(c)[s]

\* A call completed on a response for two symbols, replacing the series an
\* overlapping call had stored for one of them, and the store holds both as
\* the response gave them.
C20_Witness ==
    \E c \in Calls, d \in Calls :
        /\ c # d
        /\ pc[c] = "returned"
        /\ DOMAIN Parsed(c) = {"eth-btc", "ltc-btc"}
        /\ pc[d] = "awaiting"
        /\ "eth-btc" \in DOMAIN result[d]
        /\ result[d]["eth-btc"] # Parsed(c)["eth-btc"]
        /\ candles[getKey(args[c], "eth-btc")] = Parsed(c)["eth-btc"]
        /\ candles[getKey(args[c], "ltc-btc")] = Parsed(c)["ltc-btc"]

\* C21, as stated: in the Result of a call that completes, each hit symbol
\* maps to the series the cache held under its key when the call probed,
\* and each miss symbol the response holds maps to the series the response
\* held for it.
C21_ResultAssembly ==
    [][\A c \in Calls :
          /\ StartsCall(c) =>
                \A s \in DOMAIN result'[c] : result'[c][s] = candles[getKey(args'[c], s)]
          /\ Resumes(c) /\ pc'[c] = "returned" =>
                LET got == snakeToCamelReviver(response'[c].text.value)
                IN  /\ \A s \in HitSymbols(c) :
                          s \in DOMAIN result'[c] /\ result'[c][s] = result[c][s]
                    /\ \A s \in MissSymbols(c) \cap DOMAIN got :
                          s \in DOMAIN result'[c] /\ result'[c][s] = got[s]
      ]_vars

\* C21, amended: each hit symbol that the response does not name maps to
\* the series the cache held under its key when the call probed, and each
\* symbol the response holds, a miss or not, maps to the series the response
\* held for it.
C21_ResultAssemblyResponseWins ==
    [][\A c \in Calls :
          /\ StartsCall(c) =>
                \A s \in DOMAIN result'[c] : result'[c][s] = candles[getKey(args'[c], s)]
          /\ Resumes(c) /\ pc'[c] = "returned" =>
                LET got == snakeToCamelReviver(response'[c].text.value)
                IN  /\ \A s \in HitSymbols(c) \ DOMAIN got :
                          s \in DOMAIN result'[c] /\ result'[c][s] = result[c][s]
                    /\ \A s \in DOMAIN got :
                          s \in DOMAIN result'[c] /\ result'[c][s] = got[s]
      ]_vars

\* A call with the hit eth-btc and the miss ltc-btc returned on a response
\* for both: its Result holds the response's series for both, and the
\* other caller's call holds the series that was in the cache for eth-btc.
C21_Witness ==
    \E c \in Calls, d \in Calls :
        /\ c # d
        /\ pc[c] = "returned"
        /\ HitSymbols(c) = {"eth-btc"}
        /\ MissSymbols(c) = {"ltc-btc"}
        /\ DOMAIN Parsed(c) = {"eth-btc", "ltc-btc"}
        /\ result[c] = Parsed(c)
        /\ pc[d] = "awaiting"
        /\ "eth-btc" \in DOMAIN result[d]
        /\ result[d]["eth-btc"] # result[c]["eth-btc"]

\* The step of a resuming call leaves the entry of key k as it was.
KeepsEntry(k) == k \in DOMAIN candles' /\ candles'[k] = candles[k]

\* C22, as stated: a call writes no key it found present at its probe; when
\* no other call stored one of its miss keys meanwhile, its writes replace
\* no stored series; and a call whose symbols are all hits returns at once
\* and leaves the Cache Store unchanged.
C22_HitIsNeverOverwritten ==
    [][\A c \in Calls :
          /\ Resumes(c) =>
                /\ \A s \in HitSymbols(c) : KeepsEntry(getKey(args[c], s))
                /\ (\A s \in MissSymbols(c) : getKey(args[c], s) \notin DOMAIN candles)
                   => \A k \in DOMAIN candles : KeepsEntry(k)
          /\ StartsCall(c) /\ missingSymbols'[c] = <<>> =>
                pc'[c] = "returned" /\ candles' = candles
      ]_vars

\* C22, amended: the same for the hit symbols the response does not name,
\* and for the calls whose response names only symbols they missed.
C22_HitIsNotOverwrittenUnlessNamed ==
    [][\A c \in Calls :
          /\ Resumes(c) /\ pc'[c] = "returned" =>
                LET got == snakeToCamelReviver(response'[c].text.value)
                IN  /\ \A s \in HitSymbols(c) \ DOMAIN got : KeepsEntry(getKey(args[c], s))
                    /\ (/\ DOMAIN got \subseteq MissSymbols(c)
                        /\ \A s \in MissSymbols(c) : getKey(args[c], s) \notin DOMAIN candles)
                       => \A k \in DOMAIN candles : KeepsEntry(k)
          /\ Resumes(c) /\ pc'[c] = "failed" => candles' = candles
          /\ StartsCall(c) /\ missingSymbols'[c] = <<>> =>
                pc'[c] = "returned" /\ candles' = candles
      ]_vars

\* A call with the hit eth-btc has returned on a response for its miss
\* ltc-btc alone, and the store holds for eth-btc what the call was given.
C22_Witness ==
    \E c \in Calls :
        /\ pc[c] = "returned"
        /\ HitSymbols(c) = {"eth-btc"}
        /\ DOMAIN Parsed(c) = {"ltc-btc"}
        /\ candles[getKey(args[c], "eth-btc")] = result[c]["eth-btc"]
        /\ candles[getKey(args[c], "ltc-btc")] = Parsed(c)["ltc-btc"]

\* C24, as stated: the step in which a call resumes stores or replaces
\* entries only under keys of symbols the call missed, and removes none,
\* whatever the response holds.
C24_WritesOnlyMissKeys ==
    [][\A c \in Calls :
          Resumes(c) =>
             /\ \A k \in DOMAIN candles : k \in DOMAIN candles'
             /\ \A k \in DOMAIN candles' :
                   (k \notin DOMAIN candles \/ candles'[k] # candles[k]) =>
                      \E s \in MissSymbols(c) : k = getKey(args[c], s)
      ]_vars

\* C24, amended: the step in which a call resumes stores or replaces
\* entries only under keys of symbols the response holds, and removes none;
\* these are keys of symbols the call missed when the response names no
\* other symbol.
C24_WritesOnlyResponseKeys ==
    [][\A c \in Calls :
          Resumes(c) =>
             LET named == IF pc'[c] = "returned"
                          THEN DOMAIN snakeToCamelReviver(response'[c].text.value)
                          ELSE {}
             IN  /\ \A k \in DOMAIN candles : k \in DOMAIN candles'
                 /\ \A k \in DOMAIN candles' :
                       (k \notin DOMAIN candles \/ candles'[k] # candles[k]) =>
                          /\ \E s \in named : k = getKey(args[c], s)
                          /\ named \subseteq MissSymbols(c) =>
                                \E s \in MissSymbols(c) : k = getKey(args[c], s)
      ]_vars

\* A call for eth-btc alone returned on a response that held ltc-btc too,
\* and the store holds an entry for ltc-btc.
C24_Witness ==
    \E c \in Calls :
        /\ pc[c] = "returned"
        /\ Requested(c) = {"eth-btc"}
        /\ DOMAIN Parsed(c) = {"eth-btc", "ltc-btc"}
        /\ getKey(args[c], "ltc-btc") \in DOMAIN candles
        /\ candles[getKey(args[c], "ltc-btc")] = Parsed(c)["ltc-btc"]

\* C27, as stated: the request of a call names each missing symbol exactly
\* once, also when the symbols list of the query names a symbol twice.
C27_RequestNamesEachMissOnce ==
    \A c \in Calls :
        Active(c) /\ requests[c] # <<>> =>
            LET named == requests[c][1].symbols
            IN  /\ Range(named) = MissSymbols(c)
                /\ Len(named) = Cardinality(Range(named))

\* The value with the keys of every object, at every depth, renamed by the
\* table conv, and everything else as it was.
RECURSIVE Renamed(_, _)
Renamed(value, conv) ==
    CASE value.t = "obj" ->
            Obj([k \in {conv[j] : j \in DOMAIN value.o} |->
                    Renamed(value.o[CHOOSE j \in DOMAIN value.o : conv[j] = k], conv)])
      [] value.t = "arr" -> Arr([i \in DOMAIN value.a |-> Renamed(value.a[i], conv)])
      [] OTHER -> value

\* C23: what fetchJson sends is the body with the keys of every object, at
\* every nesting depth and inside arrays, in underscore form, and what it
\* returns is the response with those keys in camel case; arrays keep their
\* length and order and primitive values are unchanged.
C23_WireTranslation ==
    /\ CamelToSnakeOf["stopLoss"] = "stop_loss"
    /\ CamelToSnakeOf["trainingSymbols"] = "training_symbols"
    /\ SnakeToCamelOf["symbol_stats"] = "symbolStats"
    /\ wire.dir = "out" /\ wire.done => wire.result = Renamed(wire.given, CamelToSnakeOf)
    /\ wire.dir = "in" /\ wire.done => wire.result = Renamed(wire.given, SnakeToCamelOf)

\* A body whose array element is an object was sent: the key of the outer
\* object and the key of the element are both in underscore form, and the
\* primitive value a_bC is as it was.
C23_Witness ==
    /\ wire.dir = "out"
    /\ wire.done
    /\ wire.given = Obj("trainingSymbols" :> Arr(<<Obj("stopLoss" :> Prim("a_bC"))>>))
    /\ wire.result = Obj("training_symbols" :> Arr(<<Obj("stop_loss" :> Prim("a_bC"))>>))

\* C25: the reviver leaves every symbol of the known list as it is, so the
\* parsed response, the Result and the store name a series by the symbol
\* exactly as the provider's response and the query named it.
C25_SymbolKeysSurviveReviver ==
    /\ \A s \in KnownSymbols : KnownSymbolKey[s] = s
    /\ \A c \in Calls :
          pc[c] = "returned" /\ response[c].kind = "http" /\ response[c].text.json =>
             /\ DOMAIN Parsed(c) = DOMAIN response[c].text.value
             /\ \A s \in DOMAIN response[c].text.value :
                   /\ s \in KnownSymbols
                   /\ Len(Parsed(c)[s]) = Len(response[c].text.value[s])
                   /\ s \in Requested(c) =>
                         /\ s \in DOMAIN result[c]
                         /\ result[c][s] = Parsed(c)[s]

\* A call for eth-btc and ltc-btc returned on a response naming both, and
\* its Result and the store hold both under the symbols as requested.
C25_Witness ==
    \E c \in Calls :
        /\ pc[c] = "returned"
        /\ response[c].kind = "http"
        /\ response[c].text.json
        /\ DOMAIN response[c].text.value = {"eth-btc", "ltc-btc"}
        /\ DOMAIN result[c] = {"eth-btc", "ltc-btc"}
        /\ result[c]["ltc-btc"] = Parsed(c)["ltc-btc"]
        /\ getKey(args[c], "ltc-btc") \in DOMAIN candles

\* C26, as stated: once every call of the component has completed and the
\* call for the most recent args has set its Result, the symbolCandles state
\* is the Result for the most recent args, in whatever order the calls
\* completed.
C26_LatestQueryWins ==
    (\A c \in Calls : pc[c] = "idle") /\ view.latestSet => view.shownFor = view.latest

\* C28, as stated: in a session at most one GET /optimize request is
\* issued, in whatever order hooks mount and requests return.
C28_AtMostOneGet ==
    info.issued <= 1

\* In this step a run completes.
Completes == runs'.completed = runs.completed + 1

\* C29, as stated: the history never holds more than 10 items, the item of
\* the run that completed last is first, and a run that completes with 10
\* items present drops exactly the last of them.
C29_BoundedNewestFirst ==
    [][ /\ Len(runs'.history) <= HistoryLimit
        /\ Completes =>
              /\ runs'.history[1] = runs'.last
              /\ Len(runs.history) = HistoryLimit =>
                    Tail(runs'.history) = SubSeq(runs.history, 1, HistoryLimit - 1)
      ]_vars

\* C30, as stated: after k completed calls, k at most 10, the history holds
\* k items, also when two calls were in progress at the same time.
C30_NoRunIsLost ==
    runs.completed <= HistoryLimit => Len(runs.history) = runs.completed

====
